---- MODULE Spec2Model ----
(***************************************************************************)
(* Model of the authentication service of app.py: the /authenticate       *)
(* handler, the orchestrator authenticate_user, the Redis cache adapter   *)
(* (check_redis / load_redis), the member-management directory client     *)
(* (get_member), the Kafka publisher (publish_to_kafka) and the           *)
(* request/response transaction log.                                       *)
(***************************************************************************)
EXTENDS Naturals, Sequences, FiniteSets, TLC

VARIABLES
    env,            \* names of the environment variables that are set
    redis_client,   \* the global redis_client: 0 is None, else the client's number
    constructed,    \* how many times redis.Redis(...) has been constructed
    cache,          \* the Redis store: key -> stored text, or None
    kafka,          \* messages handed to producer.produce, with their delivery state
    counter,        \* unauthorized_counter, per userId attribute
    log,            \* what logging.info / logging.error have emitted, in order
    pc,             \* where each worker thread stands in the handler
    call,           \* each worker's locals for the call it is handling
    done,           \* the calls that have returned their HTTP response, in order
    nCalls,         \* number of calls received so far
    lastFetched     \* per userId, the last record with that userId that
                    \* get_member received from the directory, or None

vars == <<env, redis_client, constructed, cache, kafka, counter,
          log, pc, call, done, nCalls, lastFetched>>

-----------------------------------------------------------------------------
(* Bounds of the model *)

MaxCalls == 2

Procs == {"w1", "w2"}

Users == {"u1", "u2"}

Tiers == {"gold", "silver"}

-----------------------------------------------------------------------------
(* Values *)

\* Python's None for an object (a dict, a str read from Redis, a client)
None == [none |-> TRUE]

\* data.get("userId", None) when the key is missing: JSON null
Null == "null"

\* random.randint(1, 20)
RandMax == 20

INTERNAL_ERROR == "INTERNAL SERVER ERROR"

EnvNames == {"KAFKA_SERVER", "REDIS_HOST", "MEMBER_MANAGEMENT_URL"}

\* The UserRecords the directory can answer with (response.json())
UserRecord == [userId : Users, tier : Tiers]

\* json.dumps(user_data): the text stored in Redis, as a sequence of tokens
Dumps(user_data) ==
    [text |-> <<"{", "userId", ":", user_data.userId, ",",
                "tier", ":", user_data.tier, "}">>]

CachedText == {Dumps(r) : r \in UserRecord}

\* a stored payload that is not the JSON text of a record (cut short)
Malformed == [text |-> <<"{", "userId">>]

\* The request bodies: a JSON object with or without userId, or an undecodable body
Bodies == {[userId |-> u] : u \in Users \cup {"", Null}} \cup {[malformed |-> TRUE]}

-----------------------------------------------------------------------------
(* Helpers *)

\* Falsy with the empty string let through (`if user_id is None`)
FalsyNoneOnly(user_id) == user_id = Null

\* Python truthiness of a userId (str or None): `not user_id`
Falsy(user_id) == user_id = Null \/ user_id = ""

\* Python truthiness of user_data (None, a dict, or a str read from Redis)
Truthy(user_data) == user_data # None /\ user_data # [text |-> <<>>]

\* The locals of a worker that has not received a call
NoCall ==
    [body |-> None, user_id |-> Null, transaction_id |-> 0, return_code |-> 200,
     payload |-> None, user_data |-> None,
     decoded |-> FALSE, invoked |-> FALSE, rejected |-> FALSE,
     gets |-> 0, sets |-> 0, lookups |-> 0, publishes |-> 0, incs |-> 0,
     got |-> None, status |-> 0, fetched |-> None, fault |-> "",
     setKey |-> Null, setVal |-> None, msg |-> 0, after |-> 0,
     response |-> None]

\* request_log: the entry logged
RequestEntry(transaction_id, payload) ==
    [message |-> "Request", component |-> "authenticate",
     transactionId |-> transaction_id, payload |-> payload]

\* response_log: the entry logged
ResponseEntry(transaction_id, return_code, payload) ==
    [message |-> "Response", component |-> "authenticate",
     transactionId |-> transaction_id, returnCode |-> return_code,
     payload |-> payload]

\* except Exception as ex: the locals after the handler has caught ex
Caught(c, ex) ==
    [c EXCEPT !.return_code = 500,
              !.payload = [error |-> INTERNAL_ERROR, details |-> ex]]

\* StatusFor with the 401 branch lost
StatusForAlways200(user) == 200

\* the return code authenticate chooses for what authenticate_user returned
StatusFor(user) == IF ~Truthy(user) THEN 401 ELSE 200

\* the locals after authenticate_user has returned `user` to authenticate
Returned(c, user) ==
    [c EXCEPT !.return_code = StatusFor(user),
              !.payload = IF ~Truthy(user) THEN c.payload ELSE user]

-----------------------------------------------------------------------------
(* Initial state *)

Init ==
    /\ env \in SUBSET EnvNames
    /\ redis_client = 0
    /\ constructed = 0
    \* what earlier runs of load_redis have left in Redis: a text under its
    \* userId; or a payload that something else has damaged
    /\ cache \in [Users -> CachedText \cup {Malformed, None}]
    /\ \A k \in Users : cache[k] \in CachedText => cache[k].text[4] = k
    /\ kafka = <<>>
    /\ counter = [u \in Users |-> 0]
    /\ log = <<>>
    /\ pc = [p \in Procs |-> "idle"]
    /\ call = [p \in Procs |-> NoCall]
    /\ done = <<>>
    /\ nCalls = 0
    /\ lastFetched = [u \in Users |-> None]

-----------------------------------------------------------------------------
(* The handler: authenticate, up to the call of authenticate_user *)

Receive(p, body) ==
    /\ pc[p] = "idle"
    /\ nCalls < MaxCalls
    /\ nCalls' = nCalls + 1
    /\ IF body = [malformed |-> TRUE]
       THEN \* request.get_json() raises before request_log is reached
            /\ call' = [call EXCEPT ![p] =
                          Caught([NoCall EXCEPT !.body = body,
                                               !.after = Len(done)],
                                 <<"BadRequest">>)]
            /\ pc' = [pc EXCEPT ![p] = "respond"]
            /\ log' = log
       ELSE LET user_id == body.userId
                payload == [userId |-> user_id]
                transaction_id == nCalls + 1
                c == [NoCall EXCEPT !.body = body, !.decoded = TRUE,
                                    !.after = Len(done),
                                    !.user_id = user_id, !.payload = payload,
                                    !.transaction_id = transaction_id]
            IN  /\ log' = Append(log, RequestEntry(transaction_id, payload))
                /\ IF Falsy(user_id)
                   THEN /\ call' = [call EXCEPT ![p] = [c EXCEPT !.return_code = 400]]
                        /\ pc' = [pc EXCEPT ![p] = "respond"]
                   ELSE /\ call' = [call EXCEPT ![p] = c]
                        /\ pc' = [pc EXCEPT ![p] = "authenticate_user"]
    /\ UNCHANGED <<env, redis_client, constructed, cache, kafka,
                   counter, done, lastFetched>>

\* jsonify(payload): the JSON text of the payload, as a sequence of tokens; a
\* str payload becomes a JSON string
Jsonify(payload) ==
    CASE "text" \in DOMAIN payload ->
           [text |-> <<"\"">> \o payload.text \o <<"\"">>]
      [] "error" \in DOMAIN payload ->
           [text |-> <<"{", "error", ":", payload.error, ",", "details", ":">>
                        \o payload.details \o <<"}">>]
      [] "tier" \in DOMAIN payload ->
           [text |-> <<"{", "userId", ":", payload.userId, ",",
                       "tier", ":", payload.tier, "}">>]
      [] OTHER ->
           [text |-> <<"{", "userId", ":", payload.userId, "}">>]

\* make_response(body, return_code)
MakeResponse(body, return_code) == [status |-> return_code, body |-> body]

\* response_log and make_response: the end of every call
Respond(p) ==
    /\ pc[p] = "respond"
    /\ log' = Append(log, ResponseEntry(call[p].transaction_id,
                                        call[p].return_code, call[p].payload))
    /\ done' = Append(done,
                 [call[p] EXCEPT !.user_data = None,
                                 !.response = MakeResponse(Jsonify(call[p].payload),
                                                           call[p].return_code)])
    /\ pc' = [pc EXCEPT ![p] = "idle"]
    /\ call' = [call EXCEPT ![p] = NoCall]
    /\ UNCHANGED <<env, redis_client, constructed, cache, kafka,
                   counter, nCalls, lastFetched>>

-----------------------------------------------------------------------------
(* get_env_variable *)

NotSet(var_name) == var_name \notin env

NotSetError(var_name) == <<"Environment variable", var_name, "not set.">>

-----------------------------------------------------------------------------
(* publish_to_kafka *)

\* str(message): the value handed to producer.produce, as a sequence of tokens
Str(transaction_id, message, user_id) ==
    [text |-> <<"{", "id", ":", transaction_id, ",", "message", ":", message, ",",
                "user", ":", "{", "userId", ":", user_id, "}", "}">>]

\* the first step of authenticate_user: the random rejection check, and on
\* rejection publish_to_kafka up to producer.produce
RejectionCheck(p) ==
    /\ pc[p] = "authenticate_user"
    /\ \E r \in 1..RandMax :
         LET c == [call[p] EXCEPT !.invoked = TRUE, !.rejected = (r = 1)]
         IN  IF r = 1
             THEN IF NotSet("KAFKA_SERVER")
                  THEN /\ call' = [call EXCEPT ![p] =
                                     Caught(c, NotSetError("KAFKA_SERVER"))]
                       /\ pc' = [pc EXCEPT ![p] = "respond"]
                       /\ kafka' = kafka
                  ELSE /\ kafka' = Append(kafka,
                              [topic |-> "test", state |-> "queued",
                               value |-> Str(c.transaction_id, "Unauthorized",
                                             c.user_id)])
                       /\ call' = [call EXCEPT ![p] =
                                     [c EXCEPT !.publishes = @ + 1,
                                               !.msg = Len(kafka) + 1]]
                       /\ pc' = [pc EXCEPT ![p] = "flush"]
             ELSE /\ call' = [call EXCEPT ![p] = c]
                  /\ pc' = [pc EXCEPT ![p] = "check_redis"]
                  /\ kafka' = kafka
    /\ UNCHANGED <<env, redis_client, constructed, cache, counter,
                   log, done, nCalls, lastFetched>>

\* the broker (or the producer's timeout) settles a queued message
BrokerAck(i) ==
    /\ i \in 1..Len(kafka)
    /\ kafka[i].state = "queued"
    /\ \E s \in {"delivered", "failed"} :
         kafka' = [kafka EXCEPT ![i].state = s]
    /\ UNCHANGED <<env, redis_client, constructed, cache, counter,
                   log, pc, call, done, nCalls, lastFetched>>

\* delivery_report: what the callback logs
DeliveryReport(m) ==
    IF m.state = "failed"
    THEN [message |-> "Error publishing to Kafka"]
    ELSE [message |-> "Published to Kafka"]

\* Flush with the `return None` of the rejection branch lost: the call goes on
\* to the cache lookup
FlushFallThrough(p) ==
    /\ pc[p] = "flush"
    /\ kafka[call[p].msg].state # "queued"
    /\ log' = Append(log, DeliveryReport(kafka[call[p].msg]))
    /\ counter' = [counter EXCEPT ![call[p].user_id] = @ + 1]
    /\ call' = [call EXCEPT ![p].incs = @ + 1]
    /\ pc' = [pc EXCEPT ![p] = "check_redis"]
    /\ UNCHANGED <<env, redis_client, constructed, cache, kafka,
                   done, nCalls, lastFetched>>

\* Flush with producer.flush() lost: the call goes on without the delivery
\* report
FlushNoWait(p) ==
    /\ pc[p] = "flush"
    /\ log' = IF kafka[call[p].msg].state = "queued" THEN log
              ELSE Append(log, DeliveryReport(kafka[call[p].msg]))
    /\ counter' = [counter EXCEPT ![call[p].user_id] = @ + 1]
    /\ call' = [call EXCEPT ![p] = Returned([@ EXCEPT !.incs = @ + 1], None)]
    /\ pc' = [pc EXCEPT ![p] = "respond"]
    /\ UNCHANGED <<env, redis_client, constructed, cache, kafka,
                   done, nCalls, lastFetched>>

\* producer.poll(0); producer.flush() serve the delivery callback and return
\* once the message is settled; then unauthorized_counter.add and return None
Flush(p) ==
    /\ pc[p] = "flush"
    /\ kafka[call[p].msg].state # "queued"
    /\ log' = Append(log, DeliveryReport(kafka[call[p].msg]))
    /\ counter' = [counter EXCEPT ![call[p].user_id] = @ + 1]
    /\ call' = [call EXCEPT ![p] = Returned([@ EXCEPT !.incs = @ + 1], None)]
    /\ pc' = [pc EXCEPT ![p] = "respond"]
    /\ UNCHANGED <<env, redis_client, constructed, cache, kafka,
                   done, nCalls, lastFetched>>

-----------------------------------------------------------------------------
(* check_redis *)

\* `if not redis_client:` and get_env_variable("REDIS_HOST")
CheckRedisTest(p) ==
    /\ pc[p] = "check_redis"
    /\ IF redis_client # 0
       THEN /\ pc' = [pc EXCEPT ![p] = "redis_get"]
            /\ call' = call
       ELSE IF NotSet("REDIS_HOST")
            THEN /\ call' = [call EXCEPT ![p] = Caught(@, NotSetError("REDIS_HOST"))]
                 /\ pc' = [pc EXCEPT ![p] = "respond"]
            ELSE /\ pc' = [pc EXCEPT ![p] = "check_redis_new"]
                 /\ call' = call
    /\ UNCHANGED <<env, redis_client, constructed, cache, kafka,
                   counter, log, done, nCalls, lastFetched>>

\* redis_client = redis.Redis(...)
CheckRedisNew(p) ==
    /\ pc[p] = "check_redis_new"
    /\ constructed' = constructed + 1
    /\ redis_client' = constructed + 1
    /\ pc' = [pc EXCEPT ![p] = "redis_get"]
    /\ UNCHANGED <<env, cache, kafka, counter, log, call, done, nCalls, lastFetched>>

\* RedisGet with `if not user_data:` lost: the directory is asked on a hit too
RedisGetNoHit(p) ==
    /\ pc[p] = "redis_get"
    /\ \E reachable \in BOOLEAN :
         LET c == [call[p] EXCEPT !.gets = @ + 1]
         IN  IF ~reachable
             THEN /\ call' = [call EXCEPT ![p] =
                                Caught([c EXCEPT !.fault = "get"],
                                       <<"ConnectionError">>)]
                  /\ pc' = [pc EXCEPT ![p] = "respond"]
             ELSE /\ call' = [call EXCEPT ![p] =
                                [c EXCEPT !.user_data = cache[c.user_id],
                                          !.got = cache[c.user_id]]]
                  /\ pc' = [pc EXCEPT ![p] = "get_member"]
    /\ UNCHANGED <<env, redis_client, constructed, cache, kafka,
                   counter, log, done, nCalls, lastFetched>>

\* redis_client.get(user_id), and authenticate_user's `if not user_data`
RedisGet(p) ==
    /\ pc[p] = "redis_get"
    /\ \E reachable \in BOOLEAN :
         LET c == [call[p] EXCEPT !.gets = @ + 1]
         IN  IF ~reachable
             THEN /\ call' = [call EXCEPT ![p] =
                                Caught([c EXCEPT !.fault = "get"],
                                       <<"ConnectionError">>)]
                  /\ pc' = [pc EXCEPT ![p] = "respond"]
             ELSE LET user_data == cache[c.user_id]
                      c1 == [c EXCEPT !.user_data = user_data, !.got = user_data]
                  IN  IF ~Truthy(user_data)
                      THEN /\ call' = [call EXCEPT ![p] = c1]
                           /\ pc' = [pc EXCEPT ![p] = "get_member"]
                      ELSE /\ call' = [call EXCEPT ![p] = Returned(c1, user_data)]
                           /\ pc' = [pc EXCEPT ![p] = "respond"]
    /\ UNCHANGED <<env, redis_client, constructed, cache, kafka,
                   counter, log, done, nCalls, lastFetched>>

-----------------------------------------------------------------------------
(* get_member *)

\* what requests.post can do: raise, answer with a status other than 200, or
\* answer 200 with a UserRecord as its JSON body
Responses ==
    {[status |-> 0, json |-> None], [status |-> 404, json |-> None],
     [status |-> 503, json |-> None]}
        \cup {[status |-> 200, json |-> r] : r \in UserRecord}

\* Raises with response.raise_for_status() added: any status but 200 raises
RaisesForStatus(response) == response.status # 200

\* requests.post raises (no response came: status 0)
Raises(response) == response.status = 0

GetMember(p) ==
    /\ pc[p] = "get_member"
    /\ IF NotSet("MEMBER_MANAGEMENT_URL")
       THEN /\ call' = [call EXCEPT ![p] =
                          Caught(@, NotSetError("MEMBER_MANAGEMENT_URL"))]
            /\ pc' = [pc EXCEPT ![p] = "respond"]
            /\ lastFetched' = lastFetched
       ELSE \E response \in Responses :
              LET user_data == IF response.status = 200 THEN response.json ELSE None
                  c == [call[p] EXCEPT !.lookups = @ + 1,
                                       !.status = response.status,
                                       !.fetched = user_data]
              IN  /\ lastFetched' = IF user_data = None THEN lastFetched
                                     ELSE [lastFetched EXCEPT
                                             ![user_data.userId] = user_data]
                  /\ IF Raises(response)
                     THEN /\ call' = [call EXCEPT ![p] =
                                        Caught(c, <<"ConnectionError">>)]
                          /\ pc' = [pc EXCEPT ![p] = "respond"]
                     ELSE IF ~Truthy(user_data)
                     THEN /\ call' = [call EXCEPT ![p] = Returned(c, user_data)]
                          /\ pc' = [pc EXCEPT ![p] = "respond"]
                     ELSE /\ call' = [call EXCEPT ![p] =
                                        [c EXCEPT !.user_data = user_data]]
                          /\ pc' = [pc EXCEPT ![p] = "load_redis"]
    /\ UNCHANGED <<env, redis_client, constructed, cache, kafka,
                   counter, log, done, nCalls>>

-----------------------------------------------------------------------------
(* load_redis *)

\* LoadRedis with redis_client.set keyed by the requested user_id
LoadRedisKeyedByRequest(p) ==
    /\ pc[p] = "load_redis"
    /\ LET user_data == call[p].user_data
           c == [call[p] EXCEPT !.sets = @ + 1]
       IN  IF redis_client = 0 /\ NotSet("REDIS_HOST")
           THEN /\ call' = [call EXCEPT ![p] = Caught(@, NotSetError("REDIS_HOST"))]
                /\ pc' = [pc EXCEPT ![p] = "respond"]
                /\ UNCHANGED <<redis_client, constructed, cache>>
           ELSE /\ IF redis_client = 0
                   THEN /\ constructed' = constructed + 1
                        /\ redis_client' = constructed + 1
                   ELSE UNCHANGED <<redis_client, constructed>>
                /\ \E reachable \in BOOLEAN :
                     IF ~reachable
                     THEN /\ call' = [call EXCEPT ![p] =
                                        Caught([c EXCEPT !.fault = "set"],
                                               <<"ConnectionError">>)]
                          /\ cache' = cache
                     ELSE /\ cache' = [cache EXCEPT ![c.user_id] =
                                                      Dumps(user_data)]
                          /\ call' = [call EXCEPT ![p] =
                                  Returned([c EXCEPT !.setKey = c.user_id,
                                                     !.setVal = Dumps(user_data)],
                                           user_data)]
                /\ pc' = [pc EXCEPT ![p] = "respond"]
    /\ UNCHANGED <<env, kafka, counter, log, done, nCalls, lastFetched>>

\* load_redis(user_data), and the return of authenticate_user after it
LoadRedis(p) ==
    /\ pc[p] = "load_redis"
    /\ LET user_data == call[p].user_data
           c == [call[p] EXCEPT !.sets = @ + 1]
       IN  IF redis_client = 0 /\ NotSet("REDIS_HOST")
           THEN /\ call' = [call EXCEPT ![p] = Caught(@, NotSetError("REDIS_HOST"))]
                /\ pc' = [pc EXCEPT ![p] = "respond"]
                /\ UNCHANGED <<redis_client, constructed, cache>>
           ELSE /\ IF redis_client = 0
                   THEN /\ constructed' = constructed + 1
                        /\ redis_client' = constructed + 1
                   ELSE UNCHANGED <<redis_client, constructed>>
                /\ \E reachable \in BOOLEAN :
                     IF ~reachable
                     THEN /\ call' = [call EXCEPT ![p] =
                                        Caught([c EXCEPT !.fault = "set"],
                                               <<"ConnectionError">>)]
                          /\ cache' = cache
                     ELSE /\ cache' = [cache EXCEPT ![user_data.userId] =
                                                      Dumps(user_data)]
                          /\ call' = [call EXCEPT ![p] =
                                  Returned([c EXCEPT !.setKey = user_data.userId,
                                                     !.setVal = Dumps(user_data)],
                                           user_data)]
                /\ pc' = [pc EXCEPT ![p] = "respond"]
    /\ UNCHANGED <<env, kafka, counter, log, done, nCalls, lastFetched>>

-----------------------------------------------------------------------------
(* The service *)

Next ==
    \/ \E p \in Procs, body \in Bodies : Receive(p, body)
    \/ \E p \in Procs : RejectionCheck(p)
    \/ \E i \in 1..MaxCalls : BrokerAck(i)
    \/ \E p \in Procs : Flush(p)
    \/ \E p \in Procs : CheckRedisTest(p)
    \/ \E p \in Procs : CheckRedisNew(p)
    \/ \E p \in Procs : RedisGet(p)
    \/ \E p \in Procs : GetMember(p)
    \/ \E p \in Procs : LoadRedis(p)
    \/ \E p \in Procs : Respond(p)

Spec == Init /\ [][Next]_vars

-----------------------------------------------------------------------------
(* The calls that have returned, and what the log holds for them *)

Done == {done[i] : i \in 1..Len(done)}

\* the calls that passed the rejection check and returned without an
\* infrastructure failure
Served == {d \in Done : d.invoked /\ ~d.rejected /\ d.return_code # 500}

Echo(d) == [userId |-> d.user_id]

\* the record a cached text deserializes to (json.loads, the inverse of Dumps);
\* json.loads raises on a text that is not JSON
Loads(s) ==
    IF Len(s.text) = 9
    THEN [userId |-> s.text[4], tier |-> s.text[8]]
    ELSE [raises |-> "JSONDecodeError"]

Entries(message, transaction_id) ==
    {i \in 1..Len(log) : /\ log[i].message = message
                         /\ log[i].transactionId = transaction_id}

\* the messages produced to Kafka whose id is transaction_id
Events(transaction_id) ==
    {i \in 1..Len(kafka) : kafka[i].value.text[4] = transaction_id}

-----------------------------------------------------------------------------
(* C1..C10 *)

\* C1: a call that passes the rejection check and finds its key in the cache
\* returns 200 with the deserialized cached record, and makes no directory lookup.
C1_HitReturnsCachedRecord ==
    \A d \in Served :
        Truthy(d.got) =>
            /\ d.return_code = 200
            /\ d.payload = Loads(d.got)
            /\ d.lookups = 0

\* C2: when a call that passed the rejection check missed the cache and the
\* directory returned a record, then before the Response entry is logged the
\* cache Set has been done, under the requested userId, with the serialization
\* of the record returned.
C2_SetUnderRequestedKey ==
    \A p \in Procs :
        (/\ pc[p] = "respond"
         /\ call[p].return_code = 200
         /\ call[p].fetched # None) =>
            /\ call[p].sets = 1
            /\ call[p].setKey = call[p].user_id
            /\ call[p].setVal = Dumps(call[p].payload)
            /\ Entries("Response", call[p].transaction_id) = {}

\* C3: after a call that missed the cache and got a record from the directory,
\* a later call with the same userId returns the identical record, with no
\* second directory lookup.
C3_SecondCallIdentical ==
    \A i, j \in 1..Len(done) :
        (/\ done[i] \in Served /\ done[j] \in Served
         /\ done[j].after >= i
         /\ done[i].user_id = done[j].user_id
         /\ done[i].got = None /\ done[i].fetched # None) =>
            /\ done[i].return_code = 200
            /\ done[j].return_code = 200
            /\ done[j].payload = done[i].payload
            /\ done[j].lookups = 0

\* C4: a call that passes the rejection check, misses the cache and is told by
\* the directory that the user is absent ends 401 with the input echoed, and
\* writes nothing to the cache.
C4_NotFoundNoCacheWrite ==
    \A d \in Done :
        (/\ d.invoked /\ ~d.rejected
         /\ d.got = None /\ d.lookups = 1 /\ d.status # 0 /\ d.fetched = None) =>
            /\ d.return_code = 401
            /\ d.payload = Echo(d)
            /\ d.sets = 0
            /\ d.setVal = None

C4_Witness ==
    \E d \in Done :
        /\ d.invoked /\ ~d.rejected
        /\ d.got = None /\ d.lookups = 1 /\ d.status = 404 /\ d.fetched = None
        /\ d.return_code = 401

\* C5: a call on which the rejection check triggers returns Rejected (401, input
\* echoed) and invokes neither the cache nor the directory.
C5_RejectedSkipsCacheAndDirectory ==
    \A d \in Done :
        d.rejected =>
            /\ d.return_code = 401 /\ d.payload = Echo(d)
            /\ d.gets = 0 /\ d.sets = 0 /\ d.lookups = 0

\* C6: a call on which the rejection check triggers has produced exactly one
\* event, whose id is the call's transactionId and whose user.userId is the
\* requested userId, and has incremented the counter of that userId by 1.
C6_RejectionAudited ==
    \A d \in Done :
        d.rejected =>
            /\ Cardinality(Events(d.transaction_id)) = 1
            /\ \A i \in Events(d.transaction_id) :
                   kafka[i].value = Str(d.transaction_id, "Unauthorized", d.user_id)
            /\ d.incs = 1
            /\ counter[d.user_id] >= 1

\* C7: whatever happens to the publish, a call on which the rejection check
\* triggers is answered 401.
C7_PublishFailureStillRejected ==
    \A d \in Done : d.rejected => d.return_code = 401

\* C8: every call that has returned has exactly one Request entry and exactly
\* one Response entry in the log, the Request first, with the same transactionId.
C8_OneRequestOneResponse ==
    \A d \in Done :
        /\ Cardinality(Entries("Request", d.transaction_id)) = 1
        /\ Cardinality(Entries("Response", d.transaction_id)) = 1
        /\ \A i \in Entries("Request", d.transaction_id),
              j \in Entries("Response", d.transaction_id) : i < j

\* C9: a request with a missing or empty userId is answered 400 with the input
\* echoed, and the orchestrator is not invoked: no rejection check, no cache
\* Get or Set, no directory lookup, no publish, no counter increment.
C9_MissingUserIdIs400 ==
    \A d \in Done :
        (d.decoded /\ d.user_id \in {Null, ""}) =>
            /\ d.return_code = 400
            /\ d.payload = Echo(d)
            /\ ~d.invoked
            /\ d.gets = 0 /\ d.sets = 0 /\ d.lookups = 0
            /\ d.publishes = 0 /\ d.incs = 0
            /\ Events(d.transaction_id) = {}

C9_Witness ==
    \E d, e \in Done :
        /\ d.decoded /\ d.user_id = Null /\ d.return_code = 400
        /\ e.decoded /\ e.user_id = "" /\ e.return_code = 400

\* C10 as stated: every call of the orchestrator that returns an outcome has
\* done exactly one of event publish and cache write; the counter is
\* incremented only in Rejected calls.
C10_ExactlyOneSideEffect ==
    \A d \in Done :
        (d.invoked /\ d.return_code # 500) =>
            /\ d.publishes + d.sets = 1
            /\ d.incs > 0 => (d.rejected /\ d.return_code = 401)

\* C10 amended: every call of the orchestrator does at most one of event
\* publish and cache write, never both; the counter is incremented only in
\* Rejected calls.
C10_AtMostOneSideEffect ==
    \A d \in Done :
        d.invoked =>
            /\ d.publishes + d.sets <= 1
            /\ d.incs > 0 => (d.rejected /\ d.return_code = 401)

C10_Witness ==
    \E d, e \in Done :
        /\ d.invoked /\ d.publishes = 1 /\ d.incs = 1 /\ d.sets = 0
        /\ e.invoked /\ e.sets = 1 /\ e.publishes = 0 /\ e.return_code = 200

-----------------------------------------------------------------------------
(* C11..C17 *)

\* no call other than the i-th and j-th to return has written the cache
NoOtherWrite(i, j) ==
    /\ \A k \in 1..Len(done) : k \notin {i, j} => done[k].sets = 0
    /\ \A p \in Procs : call[p].sets = 0

\* C11: of two calls made one after the other for a userId that is cached
\* (neither rejected, nothing else writing the cache), both are served from the
\* cache with the same status and payload, neither looks the directory up and
\* neither writes the cache.
C11_CachedTwiceSame ==
    \A i, j \in 1..Len(done) :
        (/\ done[i] \in Served /\ done[j] \in Served
         /\ done[j].after >= i
         /\ done[i].user_id = done[j].user_id
         /\ Truthy(done[i].got)
         /\ NoOtherWrite(i, j)) =>
            /\ done[j].got = done[i].got
            /\ done[i].return_code = 200 /\ done[j].return_code = 200
            /\ done[j].payload = done[i].payload
            /\ done[i].lookups = 0 /\ done[j].lookups = 0
            /\ done[i].sets = 0 /\ done[j].sets = 0
            /\ cache[done[i].user_id] = done[i].got

C11_Witness ==
    \E i, j \in 1..Len(done) :
        /\ done[i] \in Served /\ done[j] \in Served
        /\ done[j].after >= i
        /\ done[i].user_id = done[j].user_id
        /\ Truthy(done[i].got) /\ Truthy(done[j].got)
        /\ done[j].return_code = 200

\* the body of a 500 answer
IsInternalError(payload) ==
    /\ DOMAIN payload = {"error", "details"}
    /\ payload.error = INTERNAL_ERROR

\* C12: a call during which the cache store fails (Get or Set unreachable, or
\* the stored payload is malformed) ends 500 with the INTERNAL SERVER ERROR
\* body; the directory is not asked after a failed Get, neither Get nor Set is
\* repeated, and the Response entry is logged.
C12_CacheErrorIs500 ==
    \A d \in Done :
        (d.invoked /\ ~d.rejected /\ (d.fault # "" \/ d.got = Malformed)) =>
            /\ d.return_code = 500
            /\ IsInternalError(d.payload)
            /\ d.fault = "get" => d.lookups = 0
            /\ d.gets <= 1 /\ d.sets <= 1
            /\ Entries("Response", d.transaction_id) # {}

\* no worker stands between get_member and load_redis, and no Set has failed
Settled ==
    /\ \A p \in Procs : pc[p] # "load_redis" /\ call[p].fault # "set"
    /\ \A d \in Done : d.fault # "set"

\* C13 as stated: whenever every fetched record has been through its Set, the
\* text cached under a userId is the serialization of the last record with
\* that userId fetched from the directory.
C13_CacheIsLastFetched ==
    Settled =>
        \A k \in Users :
            lastFetched[k] # None => cache[k] = Dumps(lastFetched[k])

\* C13 amended: every write of the cache stores, under the userId the record
\* carries, the serialization of the record the writing call has itself
\* fetched from the directory (the last writer wins, whatever was fetched last).
C13_WritesAreFetched ==
    [][\A k \in Users :
          cache'[k] # cache[k] =>
              \E p \in Procs :
                  /\ pc[p] = "load_redis" /\ pc'[p] = "respond"
                  /\ call[p].fetched \in UserRecord
                  /\ call[p].fetched.userId = k
                  /\ cache'[k] = Dumps(call[p].fetched)]_vars

\* two calls fetched different records of one userId and the one that fetched
\* first wrote last
C13_Witness ==
    /\ Settled
    /\ \E k \in Users :
          /\ lastFetched[k] # None
          /\ cache[k] \in CachedText
          /\ cache[k] # Dumps(lastFetched[k])
          /\ \E d, e \in Done :
                /\ d.sets = 1 /\ e.sets = 1
                /\ d.setKey = k /\ e.setKey = k
                /\ d.setVal # e.setVal

\* C14: the shared Redis client is constructed at most once per process,
\* however many calls reach check_redis / load_redis while it is unset.
C14_ClientConstructedOnce == constructed <= 1

ResponseLog == SelectSeq(log, LAMBDA e : e.message = "Response")

\* C17: for every call, the returnCode and payload of its Response entry are
\* the status and (as JSON) the body of its HTTP response; the status is one
\* of 200, 400, 401, 500; and it is 200 only when the payload is a user record,
\* the one cached or the one the directory returned.
C17_LogMatchesResponse ==
    /\ Len(ResponseLog) = Len(done)
    /\ \A k \in 1..Len(done) :
          LET e == ResponseLog[k]
              d == done[k]
          IN  /\ e.transactionId = d.transaction_id
              /\ e.returnCode = d.response.status
              /\ Jsonify(e.payload) = d.response.body
              /\ d.response.status \in {200, 400, 401, 500}
              /\ d.response.status = 200 =>
                    /\ e.payload \in UserRecord
                    /\ \/ Truthy(d.got) /\ e.payload = Loads(d.got)
                       \/ d.fetched \in UserRecord /\ e.payload = d.fetched

====
